---- MODULE Spec2Model ----
(***************************************************************************)
(* A model of app.py, the trading-analysis dashboard: the per-ticker loop  *)
(* of run_analysis_for_tickers and the four functions it calls             *)
(* (get_stock_data, calculate_pivot_points, calculate_emas,                *)
(* get_ripster_signal).                                                    *)
(*                                                                         *)
(* Numbers.  Prices are whole numbers of price ticks.  The code computes   *)
(* in binary floating point; the model computes the same expressions in    *)
(* exact rational arithmetic.  A rational is a pair <<n, d>> with d > 0 in *)
(* lowest terms, so that two rationals are equal as numbers exactly when   *)
(* they are equal as values.                                               *)
(*                                                                         *)
(* Tables.  A pandas DataFrame is a function from column names to columns, *)
(* each column a sequence with one entry per row.  A row (what iloc[i]     *)
(* returns) is a function from column names to values.                     *)
(***************************************************************************)
EXTENDS Integers, Sequences, FiniteSets, TLC

\* ---------------------------------------------------------------- bounds
\* Largest price, in ticks, of a bar the gateway returns.
MaxPrice == 2
\* Largest number of 15-minute bars in an intraday series.
MaxBars == 3
\* Largest high, low or close handed to calculate_pivot_points directly.
MaxPivotPrice == 4
\* Largest close or EMA value of a row handed to get_ripster_signal directly.
MaxSignalPrice == 3
\* Largest number of tickers on the watchlist.
MaxTickers == 2

\* ------------------------------------------------------ program constants
\* ticker.history(period="2d", interval="1d"): at most two daily rows.
DailyRows == 2
\* daily_hist.iloc[-2]: the row two from the end.
PrevDayOffset == 2
\* f"{...:.2f}": two decimal places, that is hundredths.
CentsPerUnit == 100

\* The spans of the six EMA columns.
Periods == {5, 8, 9, 12, 34, 50}

\* Python's None, as a record no table, row or result equals.
None == [none |-> TRUE]
\* No exception has been raised.
NoExc == "none"

\* -------------------------------------------------------------- rationals
Abs(n) == IF n < 0 THEN -n ELSE n

RECURSIVE GCD(_, _)
GCD(a, b) == IF b = 0 THEN a ELSE GCD(b, a % b)

\* n/d in lowest terms with a positive denominator (d > 0).
Rat(n, d) == LET g == GCD(Abs(n), d) IN <<n \div g, d \div g>>

ToRat(n) == <<n, 1>>
RAdd(a, b) == Rat(a[1] * b[2] + b[1] * a[2], a[2] * b[2])
RSub(a, b) == Rat(a[1] * b[2] - b[1] * a[2], a[2] * b[2])
RScale(k, a) == Rat(k * a[1], a[2])
RMul(a, b) == Rat(a[1] * b[1], a[2] * b[2])
RDivInt(a, k) == Rat(a[1], a[2] * k)
RLt(a, b) == a[1] * b[2] < b[1] * a[2]
RGt(a, b) == RLt(b, a)
RLe(a, b) == ~RLt(b, a)

\* ----------------------------------------------------------------- tables
PriceCols == {"Open", "High", "Low", "Close", "Volume"}
EMACol(p) ==
  CASE p = 5 -> "EMA5" [] p = 8 -> "EMA8" [] p = 9 -> "EMA9"
    [] p = 12 -> "EMA12" [] p = 34 -> "EMA34" [] p = 50 -> "EMA50"
EMACols == {EMACol(p) : p \in Periods}

Bar(o, h, l, c, v) ==
  [Open |-> o, High |-> h, Low |-> l, Close |-> c, Volume |-> v]

\* The DataFrame whose rows are the bars of the sequence rows.
Frame(rows) == [col \in PriceCols |-> [i \in 1..Len(rows) |-> rows[i][col]]]

NRows(df) == Len(df["Close"])
IsEmpty(df) == NRows(df) = 0
\* df.iloc[-k]: the row k from the end; an IndexError when there is none.
ILocFromEnd(df, k) == [col \in DOMAIN df |-> df[col][NRows(df) - k + 1]]
\* df.iloc[:k]: the first k rows, as a new DataFrame.
ILocTo(df, k) == [col \in DOMAIN df |-> SubSeq(df[col], 1, k)]

\* df[name] = column: the column is added, or replaced when it is there.
SetColumn(df, name, column) ==
  [col \in DOMAIN df \cup {name} |-> IF col = name THEN column ELSE df[col]]

\* ------------------------------------------------- calculate_pivot_points
\* calculate_pivot_points with the range subtracted where it is added, and
\* added where it is subtracted.
calculate_pivot_points_range_sign(prev_day) ==
  LET high == prev_day["High"]
      low == prev_day["Low"]
      close == prev_day["Close"]
      pp == RDivInt(ToRat(high + low + close), 3)
  IN [R2 |-> RAdd(pp, ToRat(low - high)),
      R1 |-> RSub(RScale(2, pp), ToRat(low)),
      PP |-> pp,
      S1 |-> RSub(RScale(2, pp), ToRat(high)),
      S2 |-> RSub(pp, ToRat(low - high))]

\* calculate_pivot_points with the pivot the mean of high and low alone.
calculate_pivot_points_no_close(prev_day) ==
  LET high == prev_day["High"]
      low == prev_day["Low"]
      pp == RDivInt(ToRat(high + low), 2)
  IN [R2 |-> RAdd(pp, ToRat(high - low)),
      R1 |-> RSub(RScale(2, pp), ToRat(low)),
      PP |-> pp,
      S1 |-> RSub(RScale(2, pp), ToRat(high)),
      S2 |-> RSub(pp, ToRat(high - low))]

\* The five classical pivot levels of the prior session.
calculate_pivot_points(prev_day) ==
  LET high == prev_day["High"]
      low == prev_day["Low"]
      close == prev_day["Close"]
      pp == RDivInt(ToRat(high + low + close), 3)
  IN [R2 |-> RAdd(pp, ToRat(high - low)),
      R1 |-> RSub(RScale(2, pp), ToRat(low)),
      PP |-> pp,
      S1 |-> RSub(RScale(2, pp), ToRat(high)),
      S2 |-> RSub(pp, ToRat(high - low))]

\* --------------------------------------------------------- calculate_emas
\* Series.ewm(span=span, adjust=False): alpha = 2 / (span + 1).
Alpha(span) == Rat(2, span + 1)

\* EwmStep with both weights alpha: the weights do not sum to one.
EwmStepBothAlpha(prev, cur, span) ==
  RAdd(RMul(Alpha(span), prev), RMul(Alpha(span), cur))

\* One step of the adjust=False recurrence:
\* y[i] = (1 - alpha) * y[i-1] + alpha * x[i].
EwmStep(prev, cur, span) ==
  RAdd(RMul(RSub(ToRat(1), Alpha(span)), prev), RMul(Alpha(span), cur))

\* EwmLoop seeded with the last close of the series instead of the first.
RECURSIVE EwmLoopSeedLast(_, _, _, _)
EwmLoopSeedLast(x, span, i, out) ==
  IF i > Len(x) THEN out
  ELSE EwmLoopSeedLast(x, span, i + 1,
               Append(out, IF i = 1 THEN ToRat(x[Len(x)])
                           ELSE EwmStep(out[i - 1], ToRat(x[i]), span)))

\* .mean() of the adjust=False window: y[1] = x[1], then the recurrence, bar
\* by bar in chronological order; out holds y[1..i-1].
RECURSIVE EwmLoop(_, _, _, _)
EwmLoop(x, span, i, out) ==
  IF i > Len(x) THEN out
  ELSE EwmLoop(x, span, i + 1,
               Append(out, IF i = 1 THEN ToRat(x[1])
                           ELSE EwmStep(out[i - 1], ToRat(x[i]), span)))

\* EwmMean with min_periods = span: no value before span bars are seen.
EwmMeanMinPeriods(x, span) ==
  SubSeq(EwmLoop(x, span, 1, <<>>), span, Len(x))

EwmMean(x, span) == EwmLoop(x, span, 1, <<>>)

\* for period in [5, 8, 9, 12, 34, 50]
PeriodList == <<5, 8, 9, 12, 34, 50>>

\* The loop body for the periods PeriodList[j..]: each adds one EMA column,
\* computed from the Close column.
RECURSIVE EmaColumnsFrom(_, _)
EmaColumnsFrom(data, j) ==
  IF j > Len(PeriodList) THEN data
  ELSE EmaColumnsFrom(
         SetColumn(data, EMACol(PeriodList[j]),
                   EwmMean(data["Close"], PeriodList[j])),
         j + 1)

\* calculate_emas changes the DataFrame it is given and returns it.  An
\* empty Close column has an empty mean: no exception is raised.
calculate_emas(data) == EmaColumnsFrom(data, 1)

\* ----------------------------------------------------- get_ripster_signal
\* round(q * 100) to the nearest whole number, ties to even, for q >= 0.
RoundCents(q) ==
  LET n == q[1] * CentsPerUnit
      fl == n \div q[2]
      rem == n - fl * q[2]
  IN IF 2 * rem < q[2] THEN fl
     ELSE IF 2 * rem > q[2] THEN fl + 1
     ELSE IF fl % 2 = 0 THEN fl ELSE fl + 1

\* f"{q:.2f}" for q >= 0.
Format2f(q) ==
  LET c == RoundCents(q)
  IN ToString(c \div CentsPerUnit) \o "." \o ToString((c % CentsPerUnit) \div 10)
       \o ToString(c % 10)

SignalLong == "LONG"
SignalShort == "SHORT"
SignalNeutral == "HOLD/NEUTRAL"
ReasonLong ==
  "Bullish bias confirmed by price over 34/50 cloud and 5/12 EMA cross."
ReasonShort ==
  "Bearish bias confirmed by price under 34/50 cloud and 5/12 EMA cross."
ReasonNeutral == "Price is in a consolidation or conflicting signal zone."
StopNeutral == "No trade recommended."
StopCloud(latest) ==
  "Primary stop is 34/50 cloud (" \o Format2f(latest["EMA34"]) \o "-"
    \o Format2f(latest["EMA50"]) \o ")."

\* get_ripster_signal with each bias an "or" of its two comparisons.
get_ripster_signal_either_ema(data) ==
  LET latest == ILocFromEnd(data, 1)
      price == latest["Close"]
      is_bullish_bias ==
        RGt(ToRat(price), latest["EMA34"]) \/ RGt(ToRat(price), latest["EMA50"])
      is_bearish_bias ==
        RLt(ToRat(price), latest["EMA34"]) \/ RLt(ToRat(price), latest["EMA50"])
      is_long_confirmation == RGt(latest["EMA5"], latest["EMA12"])
      is_short_confirmation == RLt(latest["EMA5"], latest["EMA12"])
  IN IF is_bullish_bias /\ is_long_confirmation
     THEN [signal |-> SignalLong, reason |-> ReasonLong,
           stop_loss |-> StopCloud(latest), current_price |-> price]
     ELSE IF is_bearish_bias /\ is_short_confirmation
     THEN [signal |-> SignalShort, reason |-> ReasonShort,
           stop_loss |-> StopCloud(latest), current_price |-> price]
     ELSE [signal |-> SignalNeutral, reason |-> ReasonNeutral,
           stop_loss |-> StopNeutral, current_price |-> price]

\* get_ripster_signal with the confirmations not strict (>=, <=).
get_ripster_signal_not_strict(data) ==
  LET latest == ILocFromEnd(data, 1)
      price == latest["Close"]
      is_bullish_bias ==
        RGt(ToRat(price), latest["EMA34"]) /\ RGt(ToRat(price), latest["EMA50"])
      is_bearish_bias ==
        RLt(ToRat(price), latest["EMA34"]) /\ RLt(ToRat(price), latest["EMA50"])
      is_long_confirmation == RLe(latest["EMA12"], latest["EMA5"])
      is_short_confirmation == RLe(latest["EMA5"], latest["EMA12"])
  IN IF is_bullish_bias /\ is_long_confirmation
     THEN [signal |-> SignalLong, reason |-> ReasonLong,
           stop_loss |-> StopCloud(latest), current_price |-> price]
     ELSE IF is_bearish_bias /\ is_short_confirmation
     THEN [signal |-> SignalShort, reason |-> ReasonShort,
           stop_loss |-> StopCloud(latest), current_price |-> price]
     ELSE [signal |-> SignalNeutral, reason |-> ReasonNeutral,
           stop_loss |-> StopNeutral, current_price |-> price]

\* The verdict for the last row of an EMA-augmented DataFrame with at least
\* one row.
get_ripster_signal(data) ==
  LET latest == ILocFromEnd(data, 1)
      price == latest["Close"]
      is_bullish_bias ==
        RGt(ToRat(price), latest["EMA34"]) /\ RGt(ToRat(price), latest["EMA50"])
      is_bearish_bias ==
        RLt(ToRat(price), latest["EMA34"]) /\ RLt(ToRat(price), latest["EMA50"])
      is_long_confirmation == RGt(latest["EMA5"], latest["EMA12"])
      is_short_confirmation == RLt(latest["EMA5"], latest["EMA12"])
  IN IF is_bullish_bias /\ is_long_confirmation
     THEN [signal |-> SignalLong, reason |-> ReasonLong,
           stop_loss |-> StopCloud(latest), current_price |-> price]
     ELSE IF is_bearish_bias /\ is_short_confirmation
     THEN [signal |-> SignalShort, reason |-> ReasonShort,
           stop_loss |-> StopCloud(latest), current_price |-> price]
     ELSE [signal |-> SignalNeutral, reason |-> ReasonNeutral,
           stop_loss |-> StopNeutral, current_price |-> price]

\* --------------------------------------------------------- get_stock_data
\* get_stock_data returning (None, None) only when both series are empty.
get_stock_data_both_empty(daily_hist, intraday_hist) ==
  IF IsEmpty(daily_hist) /\ IsEmpty(intraday_hist)
  THEN [exc |-> NoExc, prev_day |-> None, intraday_data |-> None]
  ELSE IF NRows(daily_hist) < PrevDayOffset
  THEN [exc |-> "IndexError", prev_day |-> None, intraday_data |-> None]
  ELSE [exc |-> NoExc, prev_day |-> ILocFromEnd(daily_hist, PrevDayOffset),
        intraday_data |-> intraday_hist]

\* get_stock_data testing the intraday series alone for emptiness.
get_stock_data_daily_unchecked(daily_hist, intraday_hist) ==
  IF IsEmpty(intraday_hist)
  THEN [exc |-> NoExc, prev_day |-> None, intraday_data |-> None]
  ELSE IF NRows(daily_hist) < PrevDayOffset
  THEN [exc |-> "IndexError", prev_day |-> None, intraday_data |-> None]
  ELSE [exc |-> NoExc, prev_day |-> ILocFromEnd(daily_hist, PrevDayOffset),
        intraday_data |-> intraday_hist]

\* The two ticker.history calls return daily_hist and intraday_hist.  The
\* result is (None, None) when either is empty; otherwise the row two from
\* the end of daily_hist with the intraday series, and an IndexError when
\* daily_hist has a single row.
get_stock_data(daily_hist, intraday_hist) ==
  IF IsEmpty(daily_hist) \/ IsEmpty(intraday_hist)
  THEN [exc |-> NoExc, prev_day |-> None, intraday_data |-> None]
  ELSE IF NRows(daily_hist) < PrevDayOffset
  THEN [exc |-> "IndexError", prev_day |-> None, intraday_data |-> None]
  ELSE [exc |-> NoExc, prev_day |-> ILocFromEnd(daily_hist, PrevDayOffset),
        intraday_data |-> intraday_hist]

\* ------------------------------------------------------------------ state
VARIABLES
  pc,             \* the statement the script is at
  watchlist,      \* [""] + the tickers of watchlist.txt
  tickers,        \* tickers_to_analyze
  idx,            \* position in tickers of the ticker of this iteration
  prev_day,       \* the prior session's row, or None
  intraday_data,  \* the intraday DataFrame, or None
  pivots,         \* the result of calculate_pivot_points, or None
  signal_info,    \* the result of get_ripster_signal, or None
  status_message, \* what the status placeholder shows
  display,        \* the elements written to the page, in order
  exc,            \* the exception that ended the script, or NoExc
  runs,           \* history: per ticker visited, what the gateway returned
                  \* and which functions were called for it
  given,          \* history: the DataFrame as it was handed to calculate_emas
  prefix          \* calculate_emas of the first rows of given, or None

vars ==
  <<pc, watchlist, tickers, idx, prev_day, intraday_data, pivots, signal_info,
    status_message, display, exc, runs, given, prefix>>

\* ----------------------------------------------------------------- inputs
Max(a, b) == IF a >= b THEN a ELSE b
Min(a, b) == IF a <= b THEN a ELSE b

SeqsUpTo(S, n) == UNION {[1..k -> S] : k \in 0..n}

TickerName(i) == "T" \o ToString(i)
\* watchlist = [""] + the non-blank lines of watchlist.txt, upper-cased.
Watchlists ==
  {<<"">> \o [i \in 1..n |-> TickerName(i)] : n \in 0..MaxTickers}

Prices == 1..MaxPrice

\* Daily sessions the gateway returns: low <= open, close <= high.
DailyBars ==
  {b \in {Bar(o, h, l, c, 100) :
            o \in Prices, h \in Prices, l \in Prices, c \in Prices} :
     /\ b["Low"] <= b["Open"] /\ b["Open"] <= b["High"]
     /\ b["Low"] <= b["Close"] /\ b["Close"] <= b["High"]}
\* daily_hist: up to DailyRows sessions, oldest first.
DailyHists == {Frame(rows) : rows \in SeqsUpTo(DailyBars, DailyRows)}

\* 15-minute bars the gateway returns: a bar that traded at one price.
IntradayBars == {Bar(c, c, c, c, 100) : c \in Prices}
\* intraday_hist: up to MaxBars bars, oldest first.
IntradayHists == {Frame(rows) : rows \in SeqsUpTo(IntradayBars, MaxBars)}

\* ------------------------------------------------------------- the script
\* The history entry of the ticker of this iteration, with f called.
Called(f) ==
  [runs EXCEPT ![Len(runs)].calls = runs[Len(runs)].calls \cup {f}]

\* The script has read watchlist.txt and drawn the sidebar; no button has
\* been pressed.
Init ==
  /\ pc = "idle"
  /\ watchlist \in Watchlists
  /\ tickers = <<>>
  /\ idx = 0
  /\ prev_day = None
  /\ intraday_data = None
  /\ pivots = None
  /\ signal_info = None
  /\ status_message = "unset"
  /\ display = <<>>
  /\ exc = NoExc
  /\ runs = <<>>
  /\ given = None
  /\ prefix = None

\* The first statement of run_analysis_for_tickers, after
\* status_message = st.empty().
run_analysis_for_tickers(tickers_to_analyze) ==
  /\ tickers' = tickers_to_analyze
  /\ status_message' = "Fetching data"
  /\ idx' = 1
  /\ pc' = "loop"
  /\ UNCHANGED <<watchlist, prev_day, intraday_data, pivots, signal_info,
                 display, exc, runs, given, prefix>>

\* "Analyze Selected Stock" with a ticker selected in the dropdown.
AnalyzeSelected ==
  /\ pc = "idle"
  /\ \E selected_ticker \in {watchlist[i] : i \in 1..Len(watchlist)} :
       /\ selected_ticker # ""
       /\ run_analysis_for_tickers(<<selected_ticker>>)

\* "Analyze Selected Stock" with the empty first entry of the dropdown
\* selected: a sidebar warning, and no analysis.
AnalyzeNothing ==
  /\ pc = "idle"
  /\ display' = Append(display, [el |-> "sidebar warning", ticker |-> ""])
  /\ pc' = "end"
  /\ UNCHANGED <<watchlist, tickers, idx, prev_day, intraday_data, pivots,
                 signal_info, status_message, exc, runs, given, prefix>>

\* "Analyze All Stocks": the watchlist without its empty first entry.
AnalyzeAll ==
  /\ pc = "idle"
  /\ run_analysis_for_tickers(Tail(watchlist))

\* for ticker in tickers_to_analyze: the divider and the header.
BeginTicker ==
  /\ pc = "loop"
  /\ idx <= Len(tickers)
  /\ display' = display \o <<[el |-> "divider", ticker |-> tickers[idx]],
                             [el |-> "header", ticker |-> tickers[idx]]>>
  /\ runs' = Append(runs, [ticker |-> tickers[idx], no_data |-> FALSE,
                           calls |-> {}])
  /\ pc' = "fetch"
  /\ UNCHANGED <<watchlist, tickers, idx, prev_day, intraday_data, pivots,
                 signal_info, status_message, exc, given, prefix>>

\* prev_day, intraday_data = get_stock_data(ticker), for whatever the
\* gateway returns.  An exception leaves run_analysis_for_tickers and ends
\* the script: nothing in app.py catches it.
GetStockData ==
  /\ pc = "fetch"
  /\ \E daily_hist \in DailyHists, intraday_hist \in IntradayHists :
       LET r == get_stock_data(daily_hist, intraday_hist)
       IN /\ runs' = [Called("get_stock_data") EXCEPT ![Len(runs)].no_data =
                        IsEmpty(daily_hist) \/ IsEmpty(intraday_hist)]
          /\ IF r.exc # NoExc
             THEN /\ exc' = r.exc
                  /\ pc' = "raised"
                  /\ UNCHANGED <<prev_day, intraday_data>>
             ELSE /\ prev_day' = r.prev_day
                  /\ intraday_data' = r.intraday_data
                  /\ pc' = "check"
                  /\ UNCHANGED exc
  /\ UNCHANGED <<watchlist, tickers, idx, pivots, signal_info, status_message,
                 display, given, prefix>>

\* if prev_day is None or intraday_data is None: the warning, and continue.
SkipTicker ==
  /\ pc = "check"
  /\ prev_day = None \/ intraday_data = None
  /\ display' = Append(display, [el |-> "warning", ticker |-> tickers[idx]])
  /\ idx' = idx + 1
  /\ pc' = "loop"
  /\ UNCHANGED <<watchlist, tickers, prev_day, intraday_data, pivots,
                 signal_info, status_message, exc, runs, given, prefix>>

\* pivots = calculate_pivot_points(prev_day)
CalculatePivots ==
  /\ pc = "check"
  /\ ~(prev_day = None \/ intraday_data = None)
  /\ pivots' = calculate_pivot_points(prev_day)
  /\ runs' = Called("calculate_pivot_points")
  /\ pc' = "emas"
  /\ UNCHANGED <<watchlist, tickers, idx, prev_day, intraday_data, signal_info,
                 status_message, display, exc, given, prefix>>

\* intraday_data = calculate_emas(intraday_data)
CalculateEmas ==
  /\ pc = "emas"
  /\ given' = intraday_data
  /\ intraday_data' = calculate_emas(intraday_data)
  /\ runs' = Called("calculate_emas")
  /\ pc' = "signal"
  /\ UNCHANGED <<watchlist, tickers, idx, prev_day, pivots, signal_info,
                 status_message, display, exc, prefix>>

\* signal_info = get_ripster_signal(intraday_data).  data.iloc[-1] is an
\* IndexError on a DataFrame without rows.
GetRipsterSignal ==
  /\ pc = "signal"
  /\ runs' = Called("get_ripster_signal")
  /\ IF IsEmpty(intraday_data)
     THEN /\ exc' = "IndexError"
          /\ pc' = "raised"
          /\ UNCHANGED signal_info
     ELSE /\ signal_info' = get_ripster_signal(intraday_data)
          /\ pc' = "render"
          /\ UNCHANGED exc
  /\ UNCHANGED <<watchlist, tickers, idx, prev_day, intraday_data, pivots,
                 status_message, display, given, prefix>>

\* The two columns: the metrics and details, then the chart.  The iteration
\* ends here; its locals are read by no later statement before they are
\* assigned again, and the model forgets them.
Render ==
  /\ pc = "render"
  /\ display' = display \o <<[el |-> "metrics", ticker |-> tickers[idx]],
                             [el |-> "chart", ticker |-> tickers[idx]]>>
  /\ runs' = Called("create_fancy_trading_chart")
  /\ prev_day' = None
  /\ intraday_data' = None
  /\ pivots' = None
  /\ signal_info' = None
  /\ given' = None
  /\ idx' = idx + 1
  /\ pc' = "loop"
  /\ UNCHANGED <<watchlist, tickers, status_message, exc, prefix>>

\* After the last ticker: status_message.success("Analysis Complete!").
Complete ==
  /\ pc = "loop"
  /\ idx > Len(tickers)
  /\ status_message' = "Analysis Complete!"
  /\ pc' = "done"
  /\ UNCHANGED <<watchlist, tickers, idx, prev_day, intraday_data, pivots,
                 signal_info, display, exc, runs, given, prefix>>

Next ==
  \/ AnalyzeSelected
  \/ AnalyzeNothing
  \/ AnalyzeAll
  \/ BeginTicker
  \/ GetStockData
  \/ SkipTicker
  \/ CalculatePivots
  \/ CalculateEmas
  \/ GetRipsterSignal
  \/ Render
  \/ Complete

Spec == Init /\ [][Next]_vars

\* ------------------------------------- the functions, called on their own
\* What a direct call of one function leaves alone: the script's own state.
NoScript ==
  /\ watchlist = <<"">>
  /\ tickers = <<>>
  /\ idx = 0
  /\ status_message = "unset"
  /\ display = <<>>
  /\ exc = NoExc
  /\ runs = <<>>

\* calculate_pivot_points on any high, low and close, coherent or not, and
\* on the session {high: 105, low: 95, close: 100}.
PivotPrices == 1..MaxPivotPrice
PivotInputs ==
  {Bar(c, h, l, c, 100) : h \in PivotPrices, l \in PivotPrices, c \in PivotPrices}
    \cup {Bar(100, 105, 95, 100, 100)}

InitPivot ==
  /\ NoScript
  /\ pc = "call calculate_pivot_points"
  /\ prev_day \in PivotInputs
  /\ intraday_data = None
  /\ pivots = None
  /\ signal_info = None
  /\ given = None
  /\ prefix = None

CallCalculatePivots ==
  /\ pc = "call calculate_pivot_points"
  /\ pivots' = calculate_pivot_points(prev_day)
  /\ pc' = "returned calculate_pivot_points"
  /\ UNCHANGED <<watchlist, tickers, idx, prev_day, intraday_data, signal_info,
                 status_message, display, exc, runs, given, prefix>>

NextPivot == CallCalculatePivots

SpecPivot == InitPivot /\ [][NextPivot]_vars

\* get_ripster_signal on a DataFrame whose last row holds any close and any
\* EMA5, EMA12, EMA34 and EMA50, alone or after an earlier row.
SignalPrices == 1..MaxSignalPrice
SignalRow(c, e5, e12, e34, e50) ==
  [Open |-> c, High |-> c, Low |-> c, Close |-> c, Volume |-> 100,
   EMA5 |-> ToRat(e5), EMA8 |-> ToRat(e5), EMA9 |-> ToRat(e5),
   EMA12 |-> ToRat(e12), EMA34 |-> ToRat(e34), EMA50 |-> ToRat(e50)]
LatestRows ==
  {SignalRow(c, e5, e12, e34, e50) :
     c \in SignalPrices, e5 \in SignalPrices, e12 \in SignalPrices,
     e34 \in SignalPrices, e50 \in SignalPrices}
\* Earlier rows: one for each verdict.
EarlierRows ==
  {SignalRow(2, 2, 1, 1, 1), SignalRow(1, 1, 2, 2, 2), SignalRow(1, 1, 1, 1, 1)}
RowsFrame(rows) ==
  [col \in PriceCols \cup EMACols |-> [i \in 1..Len(rows) |-> rows[i][col]]]
SignalInputs ==
  {RowsFrame(<<r>>) : r \in LatestRows}
    \cup {RowsFrame(<<e, r>>) : e \in EarlierRows, r \in LatestRows}

InitSignal ==
  /\ NoScript
  /\ pc = "call get_ripster_signal"
  /\ prev_day = None
  /\ intraday_data \in SignalInputs
  /\ pivots = None
  /\ signal_info = None
  /\ given = None
  /\ prefix = None

CallGetRipsterSignal ==
  /\ pc = "call get_ripster_signal"
  /\ signal_info' = get_ripster_signal(intraday_data)
  /\ pc' = "returned get_ripster_signal"
  /\ UNCHANGED <<watchlist, tickers, idx, prev_day, intraday_data, pivots,
                 status_message, display, exc, runs, given, prefix>>

NextSignal == CallGetRipsterSignal

SpecSignal == InitSignal /\ [][NextSignal]_vars

\* calculate_emas on any series of up to MaxBars bars, the empty one
\* included, and again on its first k bars.
EmaBars ==
  {Bar(o, Max(o, c), Min(o, c), c, 100 + o) : o \in Prices, c \in Prices}
EmaInputs == {Frame(rows) : rows \in SeqsUpTo(EmaBars, MaxBars)}

InitEma ==
  /\ NoScript
  /\ pc = "call calculate_emas"
  /\ prev_day = None
  /\ intraday_data \in EmaInputs
  /\ pivots = None
  /\ signal_info = None
  /\ given = intraday_data
  /\ prefix = None

\* calculate_emas(data): no statement of it raises, whatever the number of
\* rows.
CallCalculateEmas ==
  /\ pc = "call calculate_emas"
  /\ intraday_data' = calculate_emas(intraday_data)
  /\ exc' = NoExc
  /\ pc' = "returned calculate_emas"
  /\ UNCHANGED <<watchlist, tickers, idx, prev_day, pivots, signal_info,
                 status_message, display, runs, given, prefix>>

\* calculate_emas(data.iloc[:k].copy()) for a k between 1 and the length.
CallCalculateEmasOnPrefix ==
  /\ pc \in {"call calculate_emas", "returned calculate_emas"}
  /\ prefix = None
  /\ \E k \in 1..NRows(given) : prefix' = calculate_emas(ILocTo(given, k))
  /\ UNCHANGED <<pc, watchlist, tickers, idx, prev_day, intraday_data, pivots,
                 signal_info, status_message, display, exc, runs, given>>

NextEma ==
  \/ CallCalculateEmas
  \/ CallCalculateEmasOnPrefix

SpecEma == InitEma /\ [][NextEma]_vars

\* The script, or calculate_emas called on its own.
InitEmaFlow == Init \/ InitEma

NextEmaFlow == Next \/ NextEma

SpecEmaFlow == InitEmaFlow /\ [][NextEmaFlow]_vars

\* ----------------------------------------------------------------- claims
\* The row get_ripster_signal classifies: the last one of the DataFrame.
LatestBar == ILocFromEnd(intraday_data, 1)
SignalReturned == pc = "returned get_ripster_signal"
CloseOver(ema) == RGt(ToRat(LatestBar["Close"]), LatestBar[ema])
CloseUnder(ema) == RLt(ToRat(LatestBar["Close"]), LatestBar[ema])
CloseAt(ema) == ToRat(LatestBar["Close"]) = LatestBar[ema]
FastOverSlow == RGt(LatestBar["EMA5"], LatestBar["EMA12"])
FastUnderSlow == RLt(LatestBar["EMA5"], LatestBar["EMA12"])

\* C1: for every latest bar, get_ripster_signal returns LONG exactly when
\* close > EMA34, close > EMA50 and EMA5 > EMA12, SHORT exactly when
\* close < EMA34, close < EMA50 and EMA5 < EMA12, NEUTRAL in every other
\* case, and current_price is the bar's close.
C1_SignalRules ==
  SignalReturned =>
    /\ signal_info.signal \in {"LONG", "SHORT", "HOLD/NEUTRAL"}
    /\ signal_info.signal = "LONG"
         <=> (CloseOver("EMA34") /\ CloseOver("EMA50") /\ FastOverSlow)
    /\ signal_info.signal = "SHORT"
         <=> (CloseUnder("EMA34") /\ CloseUnder("EMA50") /\ FastUnderSlow)
    /\ signal_info.current_price = LatestBar["Close"]

\* A SHORT verdict has been returned for a DataFrame whose earlier row alone
\* would be LONG.
C1_Witness ==
  /\ SignalReturned
  /\ signal_info.signal = "SHORT"
  /\ NRows(intraday_data) = 2
  /\ intraday_data["Close"][1] = 2

\* C2: partial agreement never produces a directional signal: a bias
\* without its confirmation, a confirmation without its bias, or a close
\* equal to EMA34 or to EMA50, gives NEUTRAL with the fixed reason and the
\* fixed stop description.
C2_PartialAgreementIsNeutral ==
  LET bullish == CloseOver("EMA34") /\ CloseOver("EMA50")
      bearish == CloseUnder("EMA34") /\ CloseUnder("EMA50")
      partial ==
        \/ bullish /\ ~FastOverSlow
        \/ bearish /\ ~FastUnderSlow
        \/ FastOverSlow /\ ~bullish
        \/ FastUnderSlow /\ ~bearish
        \/ CloseAt("EMA34")
        \/ CloseAt("EMA50")
  IN (SignalReturned /\ partial) =>
       /\ signal_info.signal = "HOLD/NEUTRAL"
       /\ signal_info.reason
            = "Price is in a consolidation or conflicting signal zone."
       /\ signal_info.stop_loss = "No trade recommended."

\* A verdict has been returned for a bar with a bullish bias and
\* EMA5 = EMA12.
C2_Witness ==
  /\ SignalReturned
  /\ CloseOver("EMA34") /\ CloseOver("EMA50")
  /\ LatestBar["EMA5"] = LatestBar["EMA12"]

PivotsReturned == pc = "returned calculate_pivot_points"
\* R2 >= R1 >= PP >= S1 >= S2.
PivotsOrdered ==
  /\ RLe(pivots["R1"], pivots["R2"])
  /\ RLe(pivots["PP"], pivots["R1"])
  /\ RLe(pivots["S1"], pivots["PP"])
  /\ RLe(pivots["S2"], pivots["S1"])
\* R2 > R1 > PP > S1 > S2.
PivotsStrictlyOrdered ==
  /\ RLt(pivots["R1"], pivots["R2"])
  /\ RLt(pivots["PP"], pivots["R1"])
  /\ RLt(pivots["S1"], pivots["PP"])
  /\ RLt(pivots["S2"], pivots["S1"])

C4_PivotFormulas ==
  PivotsReturned =>
    LET high == prev_day["High"]
        low == prev_day["Low"]
        close == prev_day["Close"]
    IN /\ exc = NoExc
       /\ DOMAIN pivots = {"R2", "R1", "PP", "S1", "S2"}
       /\ RScale(3, pivots["PP"]) = ToRat(high + low + close)
       /\ RScale(3, pivots["R1"]) = ToRat(2 * (high + low + close) - 3 * low)
       /\ RScale(3, pivots["S1"]) = ToRat(2 * (high + low + close) - 3 * high)
       /\ RScale(3, pivots["R2"]) = ToRat((high + low + close) + 3 * (high - low))
       /\ RScale(3, pivots["S2"]) = ToRat((high + low + close) - 3 * (high - low))
       /\ (high = 105 /\ low = 95 /\ close = 100) =>
            pivots = [PP |-> <<100, 1>>, R1 |-> <<105, 1>>, S1 |-> <<95, 1>>,
                      R2 |-> <<110, 1>>, S2 |-> <<90, 1>>]

\* The levels have been returned for a malformed session, high < low.
C4_Witness ==
  /\ PivotsReturned
  /\ prev_day["High"] < prev_day["Low"]

\* The levels have been returned for {high: 105, low: 95, close: 100}.
C4_ExampleReached ==
  /\ PivotsReturned
  /\ prev_day["High"] = 105 /\ prev_day["Low"] = 95 /\ prev_day["Close"] = 100

EmasReturned == pc = "returned calculate_emas"

\* C7: the EMA is causal: for every non-empty close series, every period
\* and every k between 1 and the length, calculate_emas on the first k bars
\* gives exactly the first k EMA values it gives on the full series.
C7_EmaIsCausal ==
  (EmasReturned /\ prefix # None) =>
    \A p \in Periods :
      /\ EMACol(p) \in DOMAIN prefix
      /\ EMACol(p) \in DOMAIN intraday_data
      /\ Len(prefix[EMACol(p)]) = NRows(prefix)
      /\ prefix[EMACol(p)]
           = SubSeq(intraday_data[EMACol(p)], 1, NRows(prefix))

\* calculate_emas has run on a series of at least three bars whose last
\* close differs from the first, and on its first two bars.
C7_Witness ==
  /\ EmasReturned
  /\ prefix # None
  /\ NRows(prefix) = 2
  /\ NRows(given) >= 3
  /\ given["Close"][NRows(given)] # given["Close"][1]

\* C9: a constant series is a fixed point: when every close of a non-empty
\* series equals c, every EMA value calculate_emas produces, for every
\* period and at every bar, equals c.
C9_ConstantSeriesIsFixedPoint ==
  (/\ EmasReturned
   /\ NRows(given) >= 1
   /\ \A i \in 1..NRows(given) : given["Close"][i] = given["Close"][1]) =>
    \A p \in Periods :
      /\ EMACol(p) \in DOMAIN intraday_data
      /\ Len(intraday_data[EMACol(p)]) = NRows(given)
      /\ \A i \in 1..NRows(given) :
           intraday_data[EMACol(p)][i] = <<given["Close"][1], 1>>

\* calculate_emas has run on a constant series of at least two bars.
C9_Witness ==
  /\ EmasReturned
  /\ NRows(given) >= 2
  /\ \A i \in 1..NRows(given) : given["Close"][i] = given["Close"][1]

\* C10: after calculate_emas on a non-empty series of n bars, each of the
\* six EMA columns holds exactly n values, also when n is smaller than the
\* period, and the Open, High, Low, Close and Volume values are unchanged.
C10_EmaColumnsAlignedPricesKept ==
  (EmasReturned /\ NRows(given) >= 1) =>
    /\ DOMAIN intraday_data = PriceCols \cup EMACols
    /\ \A p \in {5, 8, 9, 12, 34, 50} :
         /\ DOMAIN intraday_data[EMACol(p)] = 1..NRows(given)
         /\ \A i \in 1..NRows(given) :
              /\ intraday_data[EMACol(p)][i] \in Int \X Int
              /\ intraday_data[EMACol(p)][i][2] > 0
    /\ \A col \in {"Open", "High", "Low", "Close", "Volume"} :
         intraday_data[col] = given[col]

\* calculate_emas has run on a series of two bars, fewer than every period,
\* whose opens differ from their closes.
C10_Witness ==
  /\ EmasReturned
  /\ NRows(given) = 2
  /\ given["Open"][1] # given["Close"][1]
  /\ given["Open"][2] # given["Close"][2]

\* The elements on the page that belong to ticker t.
Shown(t) == {display[j].el : j \in {n \in 1..Len(display) : display[n].ticker = t}}

\* C5: when the gateway returns an empty daily series or an empty intraday
\* series for a ticker, that ticker gets the warning and nothing else: no
\* pivot calculation, EMA calculation, classification or chart, no
\* exception while it is the ticker of the iteration, and the loop goes on
\* to the next ticker.
C5_NoDataSkipsTicker ==
  \A i \in 1..Len(runs) :
    runs[i].no_data =>
      /\ runs[i].calls = {"get_stock_data"}
      /\ Shown(runs[i].ticker) \subseteq {"divider", "header", "warning"}
      /\ pc = "raised" => i # Len(runs)
      /\ \/ i = idx /\ pc = "check" /\ prev_day = None /\ intraday_data = None
         \/ /\ idx > i
            /\ "warning" \in Shown(runs[i].ticker)
            /\ i < Len(tickers) =>
                 \/ idx = i + 1 /\ pc = "loop"
                 \/ Len(runs) > i /\ runs[i + 1].ticker = tickers[i + 1]

\* A ticker without data has been skipped and the chart of the ticker after
\* it has been drawn.
C5_Witness ==
  \E i \in 1..Len(runs) :
    /\ runs[i].no_data
    /\ "warning" \in Shown(runs[i].ticker)
    /\ i < Len(runs)
    /\ "create_fancy_trading_chart" \in runs[i + 1].calls

\* C6: per-ticker failures never abort a batch: whatever the gateway
\* returns for each ticker, a daily series of a single bar included, the
\* script ends with every ticker of the list visited, in list order, and
\* with the status "Analysis Complete!".
C6_BatchAlwaysCompletes ==
  pc \in {"done", "raised"} =>
    /\ status_message = "Analysis Complete!"
    /\ [i \in 1..Len(runs) |-> runs[i].ticker] = tickers
    /\ exc = NoExc

\* C8, as stated: calculate_emas fails with an EmptySeries condition when
\* the series has zero bars, and is never called on zero bars by the
\* script.
C8_EmptySeriesFails ==
  /\ (EmasReturned /\ IsEmpty(given)) => exc = "EmptySeries"
  /\ pc = "emas" => ~IsEmpty(intraday_data)

\* C8, amended: calculate_emas on a series of zero bars raises nothing and
\* returns the series with six empty EMA columns; the script never calls it
\* on zero bars, because get_stock_data returns (None, None) for an empty
\* series and the ticker is skipped.
C8_EmptySeriesReturnsEmptyColumns ==
  /\ (EmasReturned /\ IsEmpty(given)) =>
       /\ exc = NoExc
       /\ DOMAIN intraday_data = PriceCols \cup EMACols
       /\ \A col \in PriceCols \cup EMACols : intraday_data[col] = <<>>
  /\ pc = "emas" => ~IsEmpty(intraday_data)
  /\ pc \in {"signal", "render"} => ~IsEmpty(given)

\* calculate_emas has returned from a call on a series of zero bars.
C8_Witness ==
  /\ EmasReturned
  /\ IsEmpty(given)

\* The script is about to call calculate_emas for the ticker after one the
\* gateway had no data for.
C8_FlowReached ==
  /\ pc = "emas"
  /\ Len(runs) >= 2
  /\ runs[1].no_data

====
